---- MODULE Spec2Model ----
(***************************************************************************)
(* Model of lib/examples.hpp (FCPP examples): the time_dict helpers        *)
(* update, discard and max_value, the gossip routine maximize, the hop     *)
(* count routine dist and their composition hop_diameter, executed by a    *)
(* network of devices in asynchronous rounds.                              *)
(***************************************************************************)
EXTENDS Integers, FiniteSets, Sequences, TLC

VARIABLES
    px, py, pz,   \* arguments of a call of a time_dict helper
    pt,           \* time argument of discard
    pout,         \* time_dict returned by the call
    pval,         \* real_t returned by max_value
    pop,          \* which helper has been applied ("init" before the call)
    alive,        \* devices still executing rounds
    mtime,        \* per device: node.current_time() of its last round, -1 before the first
    glob,         \* per device: the time_dict retained and exported by maximize
    gseen,        \* per device: the keys of fold_hood(CALL, update, n) in its last round
    mret,         \* per device: the value returned by maximize in its last round
    mval,         \* per device: the argument v of maximize in its last round
    source,       \* the devices whose source argument is true
    hran,         \* the devices that have executed a round of dist
    hd,           \* per device: the value retained and exported by dist
    hview,        \* per device: the exports of dist received from neighbours
    hconv,        \* whether every device held its true distance when the source went
    now,          \* the time of the network in which all devices run hop_diameter
    dthr,         \* the threshold argument of hop_diameter
    lchange,      \* the time at which the elected leader last changed, -1 if it never did
    ftime,        \* filtering device: node.current_time() of its last round, -1 before the first
    lowpass_x,    \* filtering device: the value retained by the old of lowpass
    integrate_x,  \* filtering device: the value retained by the old of integrate
    fhist,        \* filtering device: time, input and results of each round so far
    stime,        \* per device: node.current_time() of its last round of stable_diameter, -1 before the first
    srd,          \* per device: the value retained and exported by rdist
    sintz,        \* per device: the value retained by integrate(z)
    sint1,        \* per device: the value retained by integrate(1)
    savgd,        \* per device: avgd of its last round
    slow,         \* per device: the value retained by lowpass
    sgos,         \* per device: the value retained and exported by maxgossip
    sfld,         \* per device: the fields of rdist and of maxgossip in its last round
    nsrc,         \* source argument of a round of device 2 calling dist and rdist
    nfield_d,     \* the field d of dist in that round, the entry of device 2 included
    nfield_r,     \* the field d of rdist in that round, the entry of device 2 included
    nout,         \* the value returned by dist
    nrout,        \* the value returned by rdist
    nop           \* whether the round has been executed ("init" before it)

pvars == <<px, py, pz, pt, pout, pval, pop>>
gvars == <<mtime, glob, gseen, mret, mval>>
hvars == <<source, hran, hd, hview, hconv>>
fvars == <<ftime, lowpass_x, integrate_x, fhist>>
svars == <<stime, srd, sintz, sint1, savgd, slow, sgos, sfld>>
nvars == <<nsrc, nfield_d, nfield_r, nout, nrout, nop>>
evars == <<lchange, fvars, svars, nvars>>
vars == <<px, py, pz, pt, pout, pval, pop, alive, mtime, glob, gseen, mret, mval,
          source, hran, hd, hview, hconv, now, dthr, lchange,
          ftime, lowpass_x, integrate_x, fhist,
          stime, srd, sintz, sint1, savgd, slow, sgos, sfld,
          nsrc, nfield_d, nfield_r, nout, nrout, nop>>

----------------------------------------------------------------------------
(* Bounds *)

\* largest timestamp of a record given to a time_dict helper
PMaxT == 1
\* largest round time of a device in the gossip network
MaxTime == 1
\* the threshold argument of maximize
Threshold == 0
\* std::numeric_limits<hops_t>::max(), hops_t being a signed integer type
hops_t_max == 5
\* the largest threshold argument of hop_diameter
DiamThreshold == 2
\* the time until which the network runs hop_diameter
DiamMaxTime == 5
\* the time until which the filtering device executes rounds
FMaxTime == 3
\* the time until which the network runs stable_diameter
SMaxTime == 1

\* device identifiers used as keys of the time_dict arguments
PKeys == {1, 2}
\* payloads (real_t) of the records; negative and positive values
Payloads == {-1, 2}
\* the devices of the network and its links (a line)
Devices == {1, 2, 3}
Edges == {{1, 2}, {2, 3}}
Nbrs(d) == {n \in Devices : {d, n} \in Edges}
\* inputs (real_t) of lowpass and integrate, as numerator and denominator
FInputs == {<<-2, 1>>, <<1, 1>>, <<1, 2>>}

----------------------------------------------------------------------------
(* real_t: a real number is the fraction num/den in lowest terms with        *)
(* den >= 0; den = 0 is the result of a division by zero or an overflow:     *)
(* 1/0 is INF, -1/0 is -INF and 0/0 is not a number                          *)

abs(a) == IF a < 0 THEN -a ELSE a

RECURSIVE gcd(_, _)
gcd(a, b) == IF b = 0 THEN a ELSE gcd(b, a % b)

sign(a) == IF a < 0 THEN -1 ELSE IF a > 0 THEN 1 ELSE 0

\* the fraction n/d, d >= 0, in lowest terms
real(n, d) ==
    LET g == gcd(abs(n), d)
    IN  IF g = 0 THEN [num |-> 0, den |-> 0]
        ELSE [num |-> sign(n) * (abs(n) \div g), den |-> d \div g]

real_of(i) == [num |-> i, den |-> 1]

INF == [num |-> 1, den |-> 0]

\* a + b; adding INF and -INF is not a number
real_add(a, b) ==
    IF a.den = 0 /\ b.den = 0
    THEN IF a.num = b.num THEN a ELSE [num |-> 0, den |-> 0]
    ELSE real(a.num * b.den + b.num * a.den, a.den * b.den)

real_neg(a) == [num |-> -a.num, den |-> a.den]

real_sub(a, b) == real_add(a, real_neg(b))

real_mul(a, b) == real(a.num * b.num, a.den * b.den)

\* a / b; a / 0 is INF, -INF or not a number
real_div(a, b) == real(a.num * b.den * sign(b.num), a.den * abs(b.num))

real_abs(a) == [num |-> abs(a.num), den |-> a.den]

\* a < b, false when one of them is not a number
real_lt(a, b) ==
    /\ ~(a.num = 0 /\ a.den = 0) /\ ~(b.num = 0 /\ b.den = 0)
    /\ IF a.den = 0 \/ b.den = 0
       THEN IF a.den = 0 /\ b.den = 0 THEN a.num < b.num
            ELSE IF a.den = 0 THEN a.num < 0 ELSE b.num > 0
       ELSE a.num * b.den < b.num * a.den

real_le(a, b) == a = b \/ real_lt(a, b)

\* std::max(a, b) and std::min(a, b)
real_max(a, b) == IF real_lt(a, b) THEN b ELSE a
real_min(a, b) == IF real_lt(b, a) THEN b ELSE a

----------------------------------------------------------------------------
(* time_dict and its helpers *)

HOPS_MAX_no_margin == hops_t_max

HOPS_MAX == hops_t_max - 1

EmptyDict == [k \in {} |-> 0]
Rec(t, v) == [first |-> t, second |-> v]
Recs(T) == [first : T, second : Payloads]
DictsOver(K, T) == UNION {[S -> Recs(T)] : S \in SUBSET K}
time_dict == DictsOver(PKeys, 0..PMaxT)

\* update with >= for >: a tie takes the record of y
update_tie_y(x, y) ==
    LET x1 == [k \in DOMAIN x |->
                 IF k \in DOMAIN y /\ y[k].first >= x[k].first THEN y[k] ELSE x[k]]
    IN  [k \in DOMAIN x1 \cup DOMAIN y |-> IF k \in DOMAIN x1 THEN x1[k] ELSE y[k]]

\* update without its second loop: the keys found only in y are not inserted
update_no_insert(x, y) ==
    [k \in DOMAIN x |->
        IF k \in DOMAIN y /\ y[k].first > x[k].first THEN y[k] ELSE x[k]]

\* update returning only what changed: the records taken from y
update_delta(x, y) ==
    [k \in {j \in DOMAIN y : j \notin DOMAIN x \/ y[j].first > x[j].first} |-> y[k]]

\* update that gives the newer timestamp to the payload of x
update_restamp(x, y) ==
    [k \in DOMAIN x \cup DOMAIN y |->
        IF k \notin DOMAIN x THEN y[k]
        ELSE IF k \in DOMAIN y /\ y[k].first > x[k].first
             THEN Rec(y[k].first, x[k].second)
             ELSE x[k]]

update(x, y) ==
    LET x1 == [k \in DOMAIN x |->
                 IF k \in DOMAIN y /\ y[k].first > x[k].first THEN y[k] ELSE x[k]]
    IN  [k \in DOMAIN x1 \cup DOMAIN y |-> IF k \in DOMAIN x1 THEN x1[k] ELSE y[k]]

\* discard with <= for <: a record of timestamp t is erased too
discard_le(x, t) == [k \in {j \in DOMAIN x : ~(x[j].first <= t)} |-> x[k]]

\* discard with the comparison reversed: the recent records are erased
discard_gt(x, t) == [k \in {j \in DOMAIN x : ~(x[j].first > t)} |-> x[k]]

\* discard that erases nothing
discard_none(x, t) == x

discard(x, t) == [k \in {j \in DOMAIN x : ~(x[j].first < t)} |-> x[k]]

max(a, b) == IF a < b THEN b ELSE a

RECURSIVE max_from(_, _, _)
max_from(val, dict, keys) ==
    IF keys = {} THEN val
    ELSE LET k == CHOOSE j \in keys : TRUE
         IN  max_from(max(val, dict[k].second), dict, keys \ {k})

max_value(dict) == max_from(0, dict, DOMAIN dict)

----------------------------------------------------------------------------
(* Calls of the helpers on arbitrary arguments *)

\* no call of a helper
no_call ==
    /\ px = EmptyDict /\ py = EmptyDict /\ pz = EmptyDict
    /\ pt = 0 /\ pout = EmptyDict /\ pval = 0 /\ pop = "idle"

\* no round of maximize yet
no_gossip ==
    /\ mtime = [d \in Devices |-> -1]
    /\ glob = [d \in Devices |-> EmptyDict]
    /\ gseen = [d \in Devices |-> {}]
    /\ mret = [d \in Devices |-> 0]
    /\ mval = [d \in Devices |-> 0]

\* no round of dist yet: the value of its nbr is the initial one
no_hops ==
    /\ hran = {}
    /\ hd = [d \in Devices |-> HOPS_MAX]
    /\ hview = [d \in Devices |-> EmptyDict]
    /\ hconv = FALSE

\* no round of the filters yet
no_filter ==
    /\ ftime = -1
    /\ lowpass_x = real_of(0) /\ integrate_x = real_of(0)
    /\ fhist = <<>>

\* no round of stable_diameter yet: the value of rdist's nbr is the initial one
no_stable ==
    /\ stime = [d \in Devices |-> -1]
    /\ srd = [d \in Devices |-> INF]
    /\ sintz = [d \in Devices |-> real_of(0)]
    /\ sint1 = [d \in Devices |-> real_of(0)]
    /\ savgd = [d \in Devices |-> real_of(0)]
    /\ slow = [d \in Devices |-> real_of(0)]
    /\ sgos = [d \in Devices |-> real_of(0)]
    /\ sfld = [d \in Devices |-> [d |-> EmptyDict, n |-> EmptyDict]]

\* no round on given fields
no_hood ==
    /\ nsrc = FALSE
    /\ nfield_d = EmptyDict /\ nfield_r = EmptyDict
    /\ nout = HOPS_MAX /\ nrout = INF
    /\ nop = "idle"

\* nothing else has happened
no_extras ==
    /\ lchange = -1
    /\ no_filter
    /\ no_stable
    /\ no_hood

InitDict ==
    /\ px \in time_dict /\ py \in time_dict /\ pz \in time_dict
    /\ pt = 0 /\ pout = EmptyDict /\ pval = 0 /\ pop = "init"
    /\ alive = Devices /\ no_gossip
    /\ source = {} /\ no_hops
    /\ now = 0 /\ dthr = 0
    /\ no_extras

CallUpdate ==
    /\ pop = "init"
    /\ pout' = update(px, py)
    /\ pop' = "update"
    /\ UNCHANGED <<px, py, pz, pt, pval, alive, gvars, hvars, now, dthr, evars>>

CallUpdateSelf ==
    /\ pop = "init"
    /\ pout' = update(px, px)
    /\ pop' = "update_self"
    /\ UNCHANGED <<px, py, pz, pt, pval, alive, gvars, hvars, now, dthr, evars>>

\* the orders and groupings in which three maps are folded pairwise
Folds3(a, b, c) ==
    {update(update(a, b), c), update(a, update(b, c))}

CallFold ==
    /\ pop = "init"
    /\ \E s \in {<<px, py, pz>>, <<px, pz, py>>, <<py, px, pz>>,
                 <<py, pz, px>>, <<pz, px, py>>, <<pz, py, px>>} :
          pout' \in Folds3(s[1], s[2], s[3])
    /\ pop' = "fold"
    /\ UNCHANGED <<px, py, pz, pt, pval, alive, gvars, hvars, now, dthr, evars>>

CallDiscard ==
    /\ pop = "init"
    /\ \E t \in 0..(PMaxT + 1) :
          /\ pt' = t
          /\ pout' = discard(px, t)
    /\ pop' = "discard"
    /\ UNCHANGED <<px, py, pz, pval, alive, gvars, hvars, now, dthr, evars>>

CallMaxValue ==
    /\ pop = "init"
    /\ pval' = max_value(px)
    /\ pop' = "max_value"
    /\ UNCHANGED <<px, py, pz, pt, pout, alive, gvars, hvars, now, dthr, evars>>

NextDict ==
    \/ CallUpdate
    \/ CallUpdateSelf
    \/ CallFold
    \/ CallDiscard
    \/ CallMaxValue

SpecDict == InitDict /\ [][NextDict]_vars

----------------------------------------------------------------------------
(* maximize: timestamped gossip in a network of devices *)

\* the neighbour field without the previous result of d
nbr_field_no_old(d, heard, loc) ==
    [k \in heard \cup {d} |-> IF k = d THEN loc ELSE glob[k]]

\* the neighbour field of maximize's nbr on device d: the last export of each
\* neighbour in heard (those whose message d holds) and, for d itself, its
\* previous result (loc in its first round)
nbr_field(d, heard, loc) ==
    [k \in heard \cup {d} |->
        IF k = d THEN (IF mtime[d] >= 0 THEN glob[d] ELSE loc) ELSE glob[k]]

\* fold_hood(CALL, update, n): the results of folding the field's values
\* pairwise, over the orders in which its entries may be visited
RECURSIVE fold_hood_update(_, _)
fold_hood_update(n, ids) ==
    IF Cardinality(ids) = 1 THEN {n[CHOOSE k \in ids : TRUE]}
    ELSE UNION {{update(a, n[k]) : a \in fold_hood_update(n, ids \ {k})} : k \in ids}

\* the body of maximize's nbr: the map retained and exported
maximize_glob(folded, loc, t, threshold) ==
    LET x == update(folded, loc)
    IN  discard(x, t - threshold)

\* maximize(v, threshold) on device d at time t, holding the messages of the
\* neighbours in heard
maximize(d, t, v, threshold, heard) ==
    LET loc == (d :> Rec(t, v))
        n == nbr_field(d, heard, loc)
    IN  \E f \in fold_hood_update(n, DOMAIN n) :
           LET g == maximize_glob(f, loc, t, threshold)
           IN  /\ glob' = [glob EXCEPT ![d] = g]
               /\ gseen' = [gseen EXCEPT ![d] = DOMAIN f]
               /\ mret' = [mret EXCEPT ![d] = max_value(g)]
               /\ mval' = [mval EXCEPT ![d] = v]
               /\ mtime' = [mtime EXCEPT ![d] = t]

\* a round of maximize(v, Threshold) on device d
MaxRound(d) ==
    /\ d \in alive
    /\ \E t \in (mtime[d] + 1)..MaxTime, v \in Payloads,
          heard \in SUBSET {s \in Nbrs(d) : mtime[s] >= 0} :
          maximize(d, t, v, Threshold, heard)
    /\ UNCHANGED <<pvars, alive, hvars, now, dthr, evars>>

\* device d, the first to do so, stops executing rounds
MaxStop(d) ==
    /\ alive = Devices
    /\ mtime[d] >= 0
    /\ alive' = alive \ {d}
    /\ UNCHANGED <<pvars, gvars, hvars, now, dthr, evars>>

InitMax ==
    /\ no_call
    /\ alive = Devices /\ no_gossip
    /\ source = {} /\ no_hops
    /\ now = 0 /\ dthr = 0
    /\ no_extras

NextMax ==
    \/ \E d \in Devices : MaxRound(d)
    \/ \E d \in Devices : MaxStop(d)

SpecMax == InitMax /\ [][NextMax]_vars

----------------------------------------------------------------------------
(* dist: hop-count distance from the closest source *)

\* conversion of an int to hops_t: out of range values wrap around
to_hops(i) ==
    LET m == 2 * (hops_t_max + 1)
        r == i % m
    IN  IF r > hops_t_max THEN r - m ELSE r

min(a, b) == IF b < a THEN b ELSE a

\* min_hood(CALL, d, HOPS_MAX): the minimum over the neighbours' entries of the
\* field, the given value standing for the device's own entry
RECURSIVE min_hood(_, _, _)
min_hood(d, ids, self) ==
    IF ids = {} THEN self
    ELSE LET k == CHOOSE j \in ids : TRUE
         IN  min(d[k], min_hood(d, ids \ {k}, self))

\* dist without the increment
dist_no_incr(src, d, old) ==
    to_hops(IF src THEN 0 ELSE min_hood(d, DOMAIN d, HOPS_MAX))

\* dist that never lets its own estimate rise
dist_keep_old(src, d, old) ==
    to_hops(IF src THEN 0 ELSE min(old, min_hood(d, DOMAIN d, HOPS_MAX) + 1))

\* the body of dist's nbr: d holds the neighbours' entries of the field,
\* old the device's own entry
dist(src, d, old) ==
    to_hops(IF src THEN 0 ELSE min_hood(d, DOMAIN d, HOPS_MAX) + 1)

\* the network before any round of dist, one device being the source
InitDist ==
    /\ no_call
    /\ alive = Devices /\ no_gossip
    /\ source \in {{s} : s \in Devices} /\ no_hops
    /\ now = 0 /\ dthr = 0
    /\ no_extras

\* a round of dist on device d
DistRound(d) ==
    /\ d \in alive
    /\ hd' = [hd EXCEPT ![d] = dist(d \in source, hview[d], hd[d])]
    /\ hran' = hran \cup {d}
    /\ UNCHANGED <<pvars, gvars, alive, source, hview, hconv, now, dthr, evars>>

\* the last export of s reaches its neighbour d
DistDeliver(s, d) ==
    /\ s \in Nbrs(d)
    /\ s \in hran /\ s \in alive /\ d \in alive
    /\ hview' = [hview EXCEPT ![d] =
                    [k \in DOMAIN hview[d] \cup {s} |->
                        IF k = s THEN hd[s] ELSE hview[d][k]]]
    /\ UNCHANGED <<pvars, gvars, alive, source, hran, hd, hconv, now, dthr, evars>>

\* the message of s held by d expires
DistExpire(s, d) ==
    /\ s \in DOMAIN hview[d]
    /\ hview' = [hview EXCEPT ![d] = [k \in DOMAIN hview[d] \ {s} |-> hview[d][k]]]
    /\ UNCHANGED <<pvars, gvars, alive, source, hran, hd, hconv, now, dthr, evars>>

\* the message of a removed device expires
DistAgeOut(s, d) ==
    /\ s \notin alive
    /\ DistExpire(s, d)

\* the hop-count distance of each device from the closest device of S
RECURSIVE hops_from(_, _, _)
hops_from(S, seen, n) ==
    IF S = {} THEN [d \in {} |-> 0]
    ELSE LET next == {e \in Devices \ (seen \cup S) : \E c \in S : {c, e} \in Edges}
             rest == hops_from(next, seen \cup S, n + 1)
         IN  [d \in S \cup DOMAIN rest |-> IF d \in S THEN n ELSE rest[d]]

true_hops == hops_from(source, {}, 0)

\* every device has executed a round and holds its distance from the source
converged == \A d \in Devices : d \in hran /\ hd[d] = true_hops[d]

\* the source is removed from the network
RemoveSource(s) ==
    /\ s \in source /\ s \in alive
    /\ alive' = alive \ {s}
    /\ source' = source \ {s}
    /\ hconv' = converged
    /\ UNCHANGED <<pvars, gvars, hran, hd, hview, now, dthr, evars>>

\* the source argument of s becomes false
SourceOff(s) ==
    /\ s \in source /\ s \in alive
    /\ source' = source \ {s}
    /\ hconv' = converged
    /\ UNCHANGED <<pvars, gvars, alive, hran, hd, hview, now, dthr, evars>>

NextDist ==
    \/ \E d \in Devices : DistRound(d)
    \/ \E s \in Devices, d \in Devices : DistDeliver(s, d)
    \/ \E s \in Devices, d \in Devices : DistExpire(s, d)
    \/ \E s \in Devices : RemoveSource(s)
    \/ \E s \in Devices : SourceOff(s)

SpecDist == InitDist /\ [][NextDist]_vars

\* a static network: rounds and deliveries only, each of them fair
NextStatic ==
    \/ \E d \in Devices : DistRound(d)
    \/ \E s \in Devices, d \in Devices : DistDeliver(s, d)

FairRounds ==
    /\ \A d \in Devices : WF_vars(DistRound(d))
    /\ \A s \in Devices, d \in Devices : WF_vars(DistDeliver(s, d))

FairDistStatic == InitDist /\ [][NextStatic]_vars /\ FairRounds

\* a static network with a fixed source whose rounds, deliveries and expiries
\* of messages come in any order
NextLossy ==
    \/ \E d \in Devices : DistRound(d)
    \/ \E s \in Devices, d \in Devices : DistDeliver(s, d)
    \/ \E s \in Devices, d \in Devices : DistExpire(s, d)

SpecDistLossy == InitDist /\ [][NextLossy]_vars

\* a network whose source may be removed or stop being a source; the messages
\* of a removed device expire
NextHeal ==
    \/ \E d \in Devices : DistRound(d)
    \/ \E s \in Devices, d \in Devices : DistDeliver(s, d)
    \/ \E s \in Devices, d \in Devices : DistAgeOut(s, d)
    \/ \E s \in Devices : RemoveSource(s)
    \/ \E s \in Devices : SourceOff(s)

FairDistHeal ==
    /\ InitDist /\ [][NextHeal]_vars
    /\ FairRounds
    /\ \A s \in Devices, d \in Devices : WF_vars(DistAgeOut(s, d))

----------------------------------------------------------------------------
(* hop_diameter: election, dist and maximize in one round *)

\* election(CALL): whether wave_election elects the device itself
election(d) == d \in source

\* the network before any round, one device being the stable leader
InitDiam ==
    /\ no_call
    /\ alive = Devices /\ no_gossip
    /\ source \in {{s} : s \in Devices} /\ no_hops
    /\ now = 0 /\ dthr \in 0..DiamThreshold
    /\ no_extras

\* a round of hop_diameter(dthr) on device d at the time of the
\* network; its exports reach the neighbours as the round ends
DiamRound(d) ==
    /\ d \in alive
    /\ mtime[d] < now
    /\ LET dnew == dist(election(d), hview[d], hd[d])
       IN  /\ hd' = [hd EXCEPT ![d] = dnew]
           /\ hran' = hran \cup {d}
           /\ hview' = [e \in Devices |->
                          IF e \in Nbrs(d)
                          THEN [k \in DOMAIN hview[e] \cup {d} |->
                                   IF k = d THEN dnew ELSE hview[e][k]]
                          ELSE hview[e]]
           /\ maximize(d, now, dnew, dthr, {s \in Nbrs(d) : mtime[s] >= 0})
    /\ UNCHANGED <<pvars, alive, source, hconv, now, dthr, evars>>

\* time advances once every device has executed its round
Tick ==
    /\ now < DiamMaxTime
    /\ \A d \in alive : mtime[d] = now
    /\ now' = now + 1
    /\ UNCHANGED <<pvars, alive, gvars, hvars, dthr, evars>>

NextDiam ==
    \/ \E d \in Devices : DiamRound(d)
    \/ Tick

SpecDiam == InitDiam /\ [][NextDiam]_vars

\* the election moves to another device s as time advances: from the next
\* round on, election(CALL) is true on s alone
LeaderChange(s) ==
    /\ now < DiamMaxTime
    /\ \A d \in alive : mtime[d] = now
    /\ s \in alive /\ s \notin source
    /\ source' = {s}
    /\ hconv' = (source # {} /\ converged)
    /\ now' = now + 1
    /\ lchange' = now + 1
    /\ UNCHANGED <<pvars, alive, gvars, hran, hd, hview, dthr, fvars, svars, nvars>>

NextElect ==
    \/ \E d \in Devices : DiamRound(d)
    \/ Tick
    \/ \E s \in Devices : LeaderChange(s)

SpecElect == InitDiam /\ [][NextElect]_vars

\* the election is lost as time advances: from the next round on,
\* election(CALL) is true on no device
LeaderLost ==
    /\ now < DiamMaxTime
    /\ \A d \in alive : mtime[d] = now
    /\ source # {}
    /\ source' = {}
    /\ hconv' = converged
    /\ now' = now + 1
    /\ lchange' = now + 1
    /\ UNCHANGED <<pvars, alive, gvars, hran, hd, hview, dthr, fvars, svars, nvars>>

NextSources ==
    \/ \E d \in Devices : DiamRound(d)
    \/ Tick
    \/ \E s \in Devices : LeaderChange(s)
    \/ LeaderLost

SpecSources == InitDiam /\ [][NextSources]_vars

----------------------------------------------------------------------------
(* lowpass and integrate, called in every round of a device *)

\* delta_time with no special case for the first round
delta_time_no_first(previous_time, current_time) ==
    current_time - max(previous_time, 0)

\* delta_time(node): previous_time() is negative in the first round
delta_time(previous_time, current_time) ==
    IF previous_time < 0 THEN 1 ELSE current_time - previous_time

\* lowpass whose old starts from 0
lowpass_from_zero(first, x, v) ==
    real_div(real_add(IF first THEN real_of(0) ELSE x, v), real_of(2))

\* lowpass(CALL, v): x is the value retained by old, v in the first round
lowpass(first, x, v) ==
    real_div(real_add(IF first THEN v ELSE x, v), real_of(2))

\* integrate(CALL, v): x is the value retained by old, 0 in the first round;
\* dt is delta_time(node)
integrate(first, x, v, dt) ==
    real_add(IF first THEN real_of(0) ELSE x, real_mul(v, real_of(dt)))

\* the device before its first round
InitFilter ==
    /\ no_call
    /\ alive = Devices /\ no_gossip
    /\ source = {} /\ no_hops
    /\ now = 0 /\ dthr = 0
    /\ no_extras

\* a round at time t calling lowpass(v) and integrate(v)
FilterRound ==
    \E t \in (ftime + 1)..FMaxTime, i \in FInputs :
        LET v == real(i[1], i[2])
            first == ftime < 0
            low == lowpass(first, lowpass_x, v)
            int == integrate(first, integrate_x, v, delta_time(ftime, t))
        IN  /\ ftime' = t
            /\ lowpass_x' = low
            /\ integrate_x' = int
            /\ fhist' = Append(fhist, [t |-> t, v |-> v, low |-> low, int |-> int])
            /\ UNCHANGED <<pvars, alive, gvars, hvars, now, dthr, lchange, svars, nvars>>

NextFilter == FilterRound

SpecFilter == InitFilter /\ [][NextFilter]_vars

----------------------------------------------------------------------------
(* stable_diameter: rdist, integrate, lowpass and maxgossip in one round *)

\* node.nbr_dist(): the physical distance between two neighbours
nbr_dist(d, s) == IF {d, s} = {1, 2} THEN real_of(1) ELSE real(3, 2)

\* min_hood(CALL, f, self) on a field of real_t
RECURSIVE real_min_hood(_, _, _)
real_min_hood(f, ids, self) ==
    IF ids = {} THEN self
    ELSE LET k == CHOOSE j \in ids : TRUE
         IN  real_min(f[k], real_min_hood(f, ids \ {k}, self))

\* max_hood(CALL, n): the maximum over all entries of the field, the
\* device's own included
RECURSIVE max_hood(_, _)
max_hood(n, ids) ==
    LET k == CHOOSE j \in ids : TRUE
    IN  IF ids = {k} THEN n[k] ELSE real_max(n[k], max_hood(n, ids \ {k}))

\* rdist adding one per hop
rdist_hops(src, d, dists) ==
    IF src THEN real_of(0)
    ELSE real_min_hood([k \in DOMAIN d |-> real_add(d[k], real_of(1))], DOMAIN d, INF)

\* the body of rdist's nbr: d holds the neighbours' entries of the field,
\* dists those of node.nbr_dist()
rdist(src, d, dists) ==
    IF src THEN real_of(0)
    ELSE real_min_hood([k \in DOMAIN d |-> real_add(d[k], dists[k])], DOMAIN d, INF)

\* maxgossip that takes the maximum of the input alone
maxgossip_input(n, v) == v

\* the body of maxgossip's nbr: n is the field, the device's own entry included
maxgossip(n, v) == real_max(max_hood(n, DOMAIN n), v)

\* the network before any round, one device being the source
InitStable ==
    /\ no_call
    /\ alive = Devices /\ no_gossip
    /\ source \in {{s} : s \in Devices} /\ no_hops
    /\ now = 0 /\ dthr = 0
    /\ no_extras

\* a round of stable_diameter(d \in source) on device d at time t, holding
\* the last exports of the neighbours in heard
StableRound(d) ==
    \E t \in (stime[d] + 1)..SMaxTime :
    \E heard \in SUBSET {s \in Nbrs(d) : stime[s] >= 0} :
        LET first == stime[d] < 0
            dt == delta_time(stime[d], t)
            fd == [s \in heard |-> srd[s]]
            dnew == rdist(d \in source, fd, [s \in heard |-> nbr_dist(d, s)])
            z == IF dnew = INF THEN real_of(0) ELSE dnew
            iz == integrate(first, sintz[d], z, dt)
            i1 == integrate(first, sint1[d], real_of(1), dt)
            avgd == real_div(iz, i1)
            lw == lowpass(first, slow[d], avgd)
            fn == [s \in heard \cup {d} |->
                     IF s # d THEN sgos[s] ELSE IF first THEN lw ELSE sgos[d]]
            diam == maxgossip(fn, lw)
        IN  /\ stime' = [stime EXCEPT ![d] = t]
            /\ srd' = [srd EXCEPT ![d] = dnew]
            /\ sintz' = [sintz EXCEPT ![d] = iz]
            /\ sint1' = [sint1 EXCEPT ![d] = i1]
            /\ savgd' = [savgd EXCEPT ![d] = avgd]
            /\ slow' = [slow EXCEPT ![d] = lw]
            /\ sgos' = [sgos EXCEPT ![d] = diam]
            /\ sfld' = [sfld EXCEPT ![d] = [d |-> fd, n |-> fn]]
            /\ UNCHANGED <<pvars, alive, gvars, hvars, now, dthr, lchange, fvars, nvars>>

NextStable == \E d \in Devices : StableRound(d)

SpecStable == InitStable /\ [][NextStable]_vars

----------------------------------------------------------------------------
(* dist and rdist on arbitrary fields *)

\* real_t values of the entries of rdist's field
RVals == {real_of(0), real(3, 2), INF}

\* the fields over device 2 and any of its neighbours
FieldsOver(V) == UNION {[S \cup {2} -> V] : S \in SUBSET Nbrs(2)}

\* the neighbours' entries of a field of device me: min_hood replaces the
\* entry of me by its last argument
nbr_entries(f, me) == [k \in DOMAIN f \ {me} |-> f[k]]

\* device 2 before a round on any fields
InitHood ==
    /\ no_call
    /\ alive = Devices /\ no_gossip
    /\ source = {} /\ no_hops
    /\ now = 0 /\ dthr = 0
    /\ lchange = -1 /\ no_filter /\ no_stable
    /\ nsrc \in BOOLEAN
    /\ nfield_d \in FieldsOver(0..hops_t_max)
    /\ nfield_r \in FieldsOver(RVals)
    /\ nout = HOPS_MAX /\ nrout = INF
    /\ nop = "init"

\* the round of device 2: dist(nsrc) and rdist(nsrc) on the fields
HoodRound ==
    /\ nop = "init"
    /\ nout' = dist(nsrc, nbr_entries(nfield_d, 2), nfield_d[2])
    /\ nrout' = rdist(nsrc, nbr_entries(nfield_r, 2),
                      [k \in DOMAIN nfield_r \ {2} |-> nbr_dist(2, k)])
    /\ nop' = "round"
    /\ UNCHANGED <<pvars, alive, gvars, hvars, now, dthr, lchange, fvars, svars,
                   nsrc, nfield_d, nfield_r>>

NextHood == HoodRound

SpecHood == InitHood /\ [][NextHood]_vars

----------------------------------------------------------------------------
(* Properties of the time_dict helpers *)

\* C1: update(x, y) has the keys of x and of y; a key of both holds the record
\* with the larger timestamp, that of x on equal timestamps; a key of one of
\* them holds that map's record.
C1_UpdateMerges ==
    pop = "update" =>
        /\ DOMAIN pout = DOMAIN px \cup DOMAIN py
        /\ \A k \in DOMAIN px \cap DOMAIN py :
              pout[k] = IF px[k].first >= py[k].first THEN px[k] ELSE py[k]
        /\ \A k \in DOMAIN px \ DOMAIN py : pout[k] = px[k]
        /\ \A k \in DOMAIN py \ DOMAIN px : pout[k] = py[k]

\* update has merged a tie of different payloads, a newer record of y and a
\* key held by y alone
C1_Witness ==
    /\ pop = "update"
    /\ \E k \in DOMAIN px \cap DOMAIN py :
          /\ px[k].first = py[k].first
          /\ px[k].second # py[k].second
          /\ pout[k] = px[k]
    /\ \/ \E k \in DOMAIN px \cap DOMAIN py : py[k].first > px[k].first
       \/ \E k \in DOMAIN py : k \notin DOMAIN px

\* records of the same key with the same timestamp carry the same payload
Consistent(ms) ==
    \A a \in ms, b \in ms : \A k \in DOMAIN a \cap DOMAIN b :
        a[k].first = b[k].first => a[k].second = b[k].second

\* C2 as stated: folding three maps pairwise with update gives the same map
\* in every order and grouping, whatever their records.
C2_FoldAnyOrder ==
    pop = "fold" => pout = update(update(px, py), pz)

\* C2: the two groupings of a fold agree on all maps, and every order and
\* grouping gives the same map when records of the same key and timestamp
\* carry the same payload.
C2_FoldConsistent ==
    pop = "fold" =>
        /\ update(update(px, py), pz) = update(px, update(py, pz))
        /\ Consistent({px, py, pz}) => pout = update(update(px, py), pz)

\* a fold of three maps with a common key, a tie on it and a newer record
C2_Witness ==
    /\ pop = "fold"
    /\ Consistent({px, py, pz})
    /\ \E k \in DOMAIN px \cap DOMAIN py \cap DOMAIN pz :
          /\ px[k].first = py[k].first
          /\ pz[k].first > px[k].first
    /\ DOMAIN px # DOMAIN py

\* C3: update(x, x) = x.
C3_UpdateIdempotent ==
    pop = "update_self" => pout = px

\* update has been applied to a map of two records and itself
C3_Witness ==
    /\ pop = "update_self"
    /\ Cardinality(DOMAIN px) = 2

\* C4: discard(m, t) erases the records of timestamp < t and keeps the
\* others as they are, that of timestamp t included; discarding again with
\* the same t changes nothing.
C4_DiscardExactly ==
    pop = "discard" =>
        /\ DOMAIN pout = {k \in DOMAIN px : px[k].first >= pt}
        /\ \A k \in DOMAIN pout : pout[k] = px[k]
        /\ discard(pout, pt) = pout

\* discard has erased one record and kept one of timestamp exactly t
C4_Witness ==
    /\ pop = "discard"
    /\ \E k \in DOMAIN px : px[k].first < pt /\ k \notin DOMAIN pout
    /\ \E k \in DOMAIN px : px[k].first = pt /\ k \in DOMAIN pout

----------------------------------------------------------------------------
(* Properties of maximize *)

\* C5: the value returned by maximize is the maximum payload among the
\* records of the map the device retains, whatever the payloads.
C5_MaxIsMaximum ==
    \A d \in Devices :
        mtime[d] >= 0 =>
            /\ \E k \in DOMAIN glob[d] : mret[d] = glob[d][k].second
            /\ \A k \in DOMAIN glob[d] : glob[d][k].second <= mret[d]

\* C6: once a device X has stopped, its last round being at time t0, a device
\* whose last round is at a time greater than t0 + Threshold retains no record
\* of X, and the maximum it reports comes from the records of other devices.
C6_StoppedDecays ==
    \A X \in Devices \ alive : \A d \in Devices \ {X} :
        mtime[d] > mtime[X] + Threshold =>
            /\ X \notin DOMAIN glob[d]
            /\ mret[d] \in {0} \cup {glob[d][k].second : k \in DOMAIN glob[d] \ {X}}

\* X has stopped and a device that is not its neighbour has merged a relayed
\* record of X in a round later than t0 + Threshold
C6_Witness ==
    \E X \in Devices \ alive : \E d \in Devices \ ({X} \cup Nbrs(X)) :
        /\ mtime[d] > mtime[X] + Threshold
        /\ X \in gseen[d]
        /\ X \notin DOMAIN glob[d]

----------------------------------------------------------------------------
(* Properties of dist *)

\* C7: in a static connected network with one source, under fair rounds and
\* deliveries, eventually every device's dist value is its hop-count distance
\* from the source, and it stays so.
C7_Converges == <>[]converged

\* every device holds its distance from a source at the end of the line
C7_Witness ==
    /\ source = {1}
    /\ alive = Devices
    /\ converged
    /\ \E d \in Devices : hd[d] = 2

\* the value dist gives a device that reaches no source
unreached == HOPS_MAX + 1

\* C8: once the only source is removed or stops being a source, under fair
\* scheduling the dist value of every remaining device rises to the value of
\* an unreached device, and stays there.
C8_Heals ==
    <>[](source = {} => \A d \in alive : d \in hran /\ hd[d] = unreached)

\* the source has been removed after every device held its distance from it,
\* and the two devices left are both at the unreached value
C8_Witness ==
    /\ source = {}
    /\ hconv
    /\ Cardinality(alive) = 2
    /\ \E d \in alive, e \in alive : d # e /\ {d, e} \in Edges
    /\ \A d \in alive : d \in hran /\ hd[d] = unreached
    /\ \A d \in alive : \A k \in DOMAIN hview[d] : k \in alive /\ hview[d][k] = unreached

\* C9 as stated: the value computed by dist never exceeds HOPS_MAX.
C9_CappedAtHopsMax ==
    \A d \in hran : hd[d] <= HOPS_MAX

\* C9: the value computed by dist lies between 0 and HOPS_MAX + 1, the largest
\* value of hops_t; the increment never wraps around.
C9_NeverWraps ==
    /\ \A d \in Devices : hd[d] >= 0 /\ hd[d] <= HOPS_MAX + 1
    /\ \A d \in Devices : \A k \in DOMAIN hview[d] :
          hview[d][k] >= 0 /\ hview[d][k] <= HOPS_MAX + 1

\* a device has received HOPS_MAX + 1 from a neighbour and computed
\* HOPS_MAX + 1 from it
C9_Witness ==
    \E d \in hran : \E k \in DOMAIN hview[d] :
        /\ hview[d][k] = HOPS_MAX + 1
        /\ hd[d] = HOPS_MAX + 1
        /\ \A j \in DOMAIN hview[d] : hview[d][j] >= HOPS_MAX

----------------------------------------------------------------------------
(* Properties of hop_diameter *)

\* the largest hop-count distance of a device from the leader
true_diameter == CHOOSE m \in {true_hops[d] : d \in Devices} :
                    \A d \in Devices : true_hops[d] <= m

\* the largest hop-count distance between two devices
net_diameter == CHOOSE m \in 0..Cardinality(Devices) :
                   /\ \A d \in Devices, e \in Devices : hops_from({d}, {}, 0)[e] <= m
                   /\ \E d \in Devices, e \in Devices : hops_from({d}, {}, 0)[e] = m

\* the time from which the results are settled: the distances take up to
\* true_diameter time units to settle, the records of them up to net_diameter
\* to reach every device
settle_time == true_diameter + net_diameter

\* every device that has run at the current time holds its hop-count distance
\* from the leader and reports the largest such distance as diameter
diam_settled ==
    \A d \in Devices :
        mtime[d] = now => hd[d] = true_hops[d] /\ mret[d] = true_diameter

\* C10 as stated: on a static line with a stable leader, whatever the
\* threshold, the rounds of hop_diameter end up returning the device's
\* distance from the leader and the largest such distance.
C10_AnyThreshold ==
    now >= settle_time => diam_settled

\* C10: on a static line with a stable leader, every device running one round
\* per time unit and the threshold being at least net_diameter, from
\* settle_time on every round of hop_diameter returns the device's hop-count
\* distance from the leader and, as diameter, the largest such distance.
C10_LineSettles ==
    (now >= settle_time /\ dthr >= net_diameter) => diam_settled

\* the leader is at the end of the line, all devices have run at a time past
\* settle_time, the farthest one is at distance 2 and the leader reports 2
C10_Witness ==
    /\ source = {1}
    /\ dthr = net_diameter
    /\ now > settle_time
    /\ \A d \in Devices : mtime[d] = now
    /\ hd[3] = 2
    /\ mret[1] = 2
    /\ \E k \in DOMAIN glob[1] : glob[1][k].first < now

\* C11 as stated: a round of hop_diameter executed after the leader has
\* changed computes its results from scratch: the gossip map holds no record
\* from before the change, and the distance is not below the distance from the
\* new leader, as no estimate computed from scratch is.
C11_FromScratch ==
    \A d \in Devices :
        (lchange >= 0 /\ mtime[d] >= lchange) =>
            /\ \A k \in DOMAIN glob[d] : glob[d][k].first >= lchange
            /\ hd[d] >= true_hops[d]

\* the time the results take to settle on a new leader
resettle_time == 2 * net_diameter

\* C11: hop_diameter resets nothing when the leader changes; on a static
\* line, every device running one round per time unit and the threshold being
\* at least net_diameter, from resettle_time after the change on every round
\* returns the distance from the new leader and the largest such distance.
C11_SettlesAfterChange ==
    (lchange >= 0 /\ now >= lchange + resettle_time /\ dthr >= net_diameter)
        => diam_settled

\* the leader has moved to the other end of the line after the distances
\* from the old one were held, and the rounds have settled on the new one
C11_Witness ==
    /\ lchange >= 0
    /\ hconv
    /\ source = {3}
    /\ dthr = net_diameter
    /\ now >= lchange + resettle_time
    /\ \A d \in Devices : mtime[d] = now
    /\ hd[1] = 2
    /\ mret[3] = 2

----------------------------------------------------------------------------
(* Properties of lowpass and integrate *)

\* C14: the first output of lowpass is its first input and every later one is
\* (previous output + input)/2, which halves the distance from the input;
\* when every input so far is the same c, the distance of the output from c
\* never increases, and it is 0 from the first round on.
C14_LowpassConverges ==
    \A n \in 1..Len(fhist) :
        LET v == fhist[n].v
            prev == IF n = 1 THEN v ELSE fhist[n - 1].low
            out == fhist[n].low
        IN  /\ real_add(out, out) = real_add(prev, v)
            /\ real_add(real_abs(real_sub(out, v)), real_abs(real_sub(out, v)))
                  = real_abs(real_sub(prev, v))
            /\ (\A j \in 1..n : fhist[j].v = v) =>
                  /\ real_le(real_abs(real_sub(out, v)), real_abs(real_sub(prev, v)))
                  /\ out = v
            /\ n = Len(fhist) => lowpass_x = out

\* three rounds have fed lowpass the same non-integer input
C14_Witness ==
    /\ Len(fhist) >= 3
    /\ \A j \in 1..Len(fhist) : fhist[j].v = real(1, 2)
    /\ lowpass_x = real(1, 2)

\* v1 + the sum over 2 <= i <= n of vi * (ti - t(i-1))
RECURSIVE integral(_, _)
integral(h, n) ==
    IF n = 1 THEN h[1].v
    ELSE real_add(integral(h, n - 1),
                  real_mul(h[n].v, real_of(h[n].t - h[n - 1].t)))

\* C15: after rounds at times t1 < ... < tn with inputs v1..vn, integrate has
\* returned and retains v1 + the sum over i >= 2 of vi * (ti - t(i-1)).
C15_IntegrateSum ==
    /\ \A n \in 1..Len(fhist) : fhist[n].int = integral(fhist, n)
    /\ Len(fhist) > 0 => integrate_x = fhist[Len(fhist)].int
    /\ \A n \in 2..Len(fhist) : fhist[n - 1].t < fhist[n].t

\* the first round is at a time other than 1 and a later round comes two time
\* units after the round before it, both with an input other than 0
C15_Witness ==
    /\ Len(fhist) >= 3
    /\ fhist[1].t = 0 /\ fhist[1].v = real(1, 2)
    /\ fhist[1].int = real(1, 2)
    /\ \E n \in 2..Len(fhist) :
          /\ fhist[n].t = fhist[n - 1].t + 2
          /\ fhist[n].v = real_of(-2)

----------------------------------------------------------------------------
(* Properties of stable_diameter *)

\* C12: in every round of every device the denominator integrate(1) of avgd
\* is at least 1, the first round included, so the quotient
\* integrate(z) / integrate(1) is a number and no division by zero happens.
C12_QuotientDefined ==
    \A d \in Devices :
        stime[d] >= 0 =>
            /\ sint1[d].den # 0 /\ sint1[d].num # 0
            /\ real_le(real_of(1), sint1[d])
            /\ savgd[d].den # 0
            /\ real_mul(savgd[d], sint1[d]) = sintz[d]

\* a device is in its first round at time 0 with a denominator of 1, and a
\* device in a later round has a quotient other than 0
C12_Witness ==
    /\ \E d \in Devices : stime[d] = 0 /\ sint1[d] = real_of(1)
    /\ \E d \in Devices : sint1[d] = real_of(2) /\ savgd[d].num # 0

\* C13: the value returned by maxgossip is at least the input v of the round
\* and at least every value of the neighbour field of the round, and on each
\* device it never decreases from a round to the next.
C13_GossipNeverDecreases ==
    /\ [](\A d \in Devices :
            stime[d] >= 0 =>
                /\ real_le(slow[d], sgos[d])
                /\ \A k \in DOMAIN sfld[d].n : real_le(sfld[d].n[k], sgos[d]))
    /\ [][\A d \in Devices :
            stime[d] >= 0 =>
                /\ real_le(sgos[d], sgos'[d])
                /\ stime'[d] # stime[d] =>
                      \A k \in DOMAIN sfld'[d].n \ {d} : sfld'[d].n[k] = sgos[k]]_vars

\* a device in its second round returns more than its input, the value of a
\* neighbour
C13_Witness ==
    \E d \in Devices :
        /\ stime[d] = 1 /\ sint1[d] = real_of(2)
        /\ real_lt(slow[d], sgos[d])
        /\ \E k \in DOMAIN sfld[d].n \ {d} : sfld[d].n[k] = sgos[d]

----------------------------------------------------------------------------
(* Properties of the rounds of dist *)

\* the least element of a set of numbers
least(S) == CHOOSE m \in S : \A x \in S : m <= x

\* the estimates of the neighbours that device d holds
estimates(d) == {hview[d][k] : k \in DOMAIN hview[d]}

\* C16 as stated: a round of dist returns 0 on a source and on another
\* device 1 + the minimum of the neighbours' estimates, HOPS_MAX being the
\* identity of the minimum: it is the minimum of no estimate and changes the
\* minimum of no other set.
C16_DefaultIsIdentity ==
    [][\A d \in Devices :
         DistRound(d) =>
             hd'[d] = IF d \in source THEN 0
                      ELSE IF estimates(d) = {} THEN 1 + HOPS_MAX
                      ELSE 1 + least(estimates(d))]_vars

\* C16: a round of dist returns 0 on a source and on another device 1 + the
\* least of HOPS_MAX and the neighbours' estimates; the device retains that
\* value, and it is the value a later delivery hands to a neighbour.
C16_DistRecurrence ==
    /\ [][\A d \in Devices :
            DistRound(d) =>
                hd'[d] = IF d \in source THEN 0
                         ELSE 1 + least(estimates(d) \cup {HOPS_MAX})]_vars
    /\ [][\A s \in Devices, d \in Devices :
            DistDeliver(s, d) => hview'[d][s] = hd[s] /\ hd' = hd]_vars

\* a device holds two different estimates, has returned 1 + the smaller one,
\* and a neighbour holds that value as its estimate
C16_Witness ==
    \E d \in hran \ source :
        /\ \E j \in DOMAIN hview[d], k \in DOMAIN hview[d] : hview[d][j] < hview[d][k]
        /\ hd[d] = 1 + least(estimates(d))
        /\ hd[d] < HOPS_MAX
        /\ \E e \in Nbrs(d) : d \in DOMAIN hview[e] /\ hview[e][d] = hd[d]

\* C18: a device that is not a source and whose fields hold its own entry
\* alone gets HOPS_MAX + 1 from dist and INF from rdist, whatever its own
\* entries are.
C18_EmptyNeighbourhood ==
    (nop = "round" /\ ~nsrc) =>
        /\ DOMAIN nfield_d = {2} => nout = HOPS_MAX + 1
        /\ DOMAIN nfield_r = {2} => nrout = INF

\* a device with no neighbour whose own estimates were 1 and 0 has got
\* HOPS_MAX + 1 and INF
C18_Witness ==
    /\ nop = "round" /\ ~nsrc
    /\ DOMAIN nfield_d = {2} /\ nfield_d[2] = 1
    /\ DOMAIN nfield_r = {2} /\ nfield_r[2] = real_of(0)
    /\ nout = HOPS_MAX + 1 /\ nrout = INF

\* C19: whatever estimates between 0 and the largest hops_t the field of a
\* round holds, that is after any rounds, deliveries, expiries and changes of
\* the sources, dist returns 0 on a device whose source argument is true and
\* a value that is at least 1 and no more than the largest hops_t on another.
C19_NonNegative ==
    nop = "round" =>
        /\ nout >= 0
        /\ nsrc => nout = 0
        /\ ~nsrc => nout >= 1 /\ nout <= hops_t_max

\* a device that is not a source and whose two neighbours both hold the
\* largest hops_t has returned the largest hops_t
C19_Witness ==
    /\ nop = "round" /\ ~nsrc
    /\ DOMAIN nfield_d = {1, 2, 3}
    /\ nfield_d[1] = hops_t_max /\ nfield_d[3] = hops_t_max
    /\ nfield_d[2] = 0
    /\ nout = hops_t_max

----------------------------------------------------------------------------
(* Properties of dist after a change of the sources *)

\* the value dist is to settle on: the hop-count distance from the source,
\* the unreached value when there is no source
target(d) == IF source = {} THEN unreached ELSE true_hops[d]

\* every device that has run at the current time holds its target
healed == \A d \in Devices : mtime[d] = now => hd[d] = target(d)

\* the rounds dist takes to settle after a change that leaves a source
heal_time == net_diameter

\* C20 as stated: after a change of the sources every device holds its new
\* hop-count distance, or the unreached value when no source is left, within
\* heal_time rounds, a number that depends on the network alone.
C20_HealsInDiameter ==
    (lchange >= 0 /\ now >= lchange + heal_time) => healed

\* C20: after a change that leaves a source every device holds its new
\* hop-count distance within heal_time rounds; after a change that leaves no
\* source the values rise step by step and every device holds the unreached
\* value within HOPS_MAX rounds.
C20_HealsBySentinel ==
    lchange >= 0 =>
        /\ (source # {} /\ now >= lchange + heal_time) => healed
        /\ (source = {} /\ now >= lchange + HOPS_MAX) => healed

\* the source was lost after every device held its distance from it; more
\* than heal_time rounds later a device is still below the unreached value
C20_Witness ==
    /\ lchange >= 0 /\ hconv
    /\ source = {}
    /\ now > lchange + heal_time
    /\ \A d \in Devices : mtime[d] = now
    /\ \E d \in Devices : hd[d] < unreached

----------------------------------------------------------------------------
(* Properties of the map retained by maximize *)

\* C21: after a round of maximize at time T with threshold Threshold, every
\* record of the map the device retains and exports has a timestamp of at
\* least T - Threshold; the older ones are dropped and the round completes.
C21_BoundedStaleness ==
    \A d \in Devices :
        mtime[d] >= 0 =>
            /\ \A k \in DOMAIN glob[d] : glob[d][k].first >= mtime[d] - Threshold
            /\ DOMAIN glob[d] \subseteq gseen[d]

\* a device has dropped the record of a neighbour that was too old and kept
\* the record of another one whose timestamp is exactly T - Threshold
C21_Witness ==
    \E d \in Devices :
        /\ mtime[d] >= 0
        /\ \E k \in gseen[d] \ {d} : k \notin DOMAIN glob[d]
        /\ \E k \in DOMAIN glob[d] \ {d} : glob[d][k].first = mtime[d] - Threshold

\* C22: after a round of maximize(v, Threshold) on device d at a time T later
\* than its previous round, the map d retains holds under key d the record
\* (T, v) of this round, and the value returned is at least v when v >= 0.
C22_OwnRecordFresh ==
    \A d \in Devices :
        mtime[d] >= 0 =>
            /\ d \in DOMAIN glob[d]
            /\ glob[d][d] = Rec(mtime[d], mval[d])
            /\ mval[d] >= 0 => mret[d] >= mval[d]

\* a device whose older record a neighbour has merged has run again with a
\* positive value and holds the record of this round
C22_Witness ==
    \E d \in Devices :
        /\ mtime[d] > 0
        /\ mval[d] > 0
        /\ glob[d][d] = Rec(mtime[d], mval[d])
        /\ mret[d] >= mval[d]
        /\ \E e \in Nbrs(d) : d \in gseen[e] /\ mtime[e] >= 0 /\ mtime[e] < mtime[d]

\* the records held under key k by the devices
held(k) == {glob[e][k] : e \in {e \in Devices : k \in DOMAIN glob[e]}}

\* C23: a record held under key k is no newer than the last round of device
\* k and, when it is of that round, it is the record (time, value) of that
\* round; and every record a step leaves under key k in a map was held under
\* key k before the step, or is the one the device k of the map has produced
\* in this round of its own. So merging, relaying and expiry never create,
\* alter or re-key a record.
C23_RecordIntegrity ==
    /\ [](\A k \in Devices : \A r \in held(k) :
            /\ mtime[k] >= 0
            /\ r.first <= mtime[k]
            /\ r.first = mtime[k] => r = Rec(mtime[k], mval[k]))
    /\ [][\A k \in Devices : \A d \in Devices :
            k \in DOMAIN glob'[d] =>
                \/ glob'[d][k] \in held(k)
                \/ /\ k = d
                   /\ mtime'[d] > mtime[d]
                   /\ glob'[d][d] = Rec(mtime'[d], mval'[d])]_vars

\* a device that is not a neighbour of device 1 holds a record of it that a
\* neighbour has relayed, while device 1 has gone on to a newer record
C23_Witness ==
    /\ 1 \in DOMAIN glob[3]
    /\ glob[3][1].first < mtime[1]
    /\ glob[3][1].second # mval[1]
    /\ glob[1][1] = Rec(mtime[1], mval[1])

\* C25: from a round of a device to its next one, the record it retains for
\* a key k stays as it is or is replaced by a record of k with a greater
\* timestamp; and k leaves the map only when that record is older than
\* the time of the round - Threshold.
C25_FreshnessMonotone ==
    [][\A d \in Devices : \A k \in DOMAIN glob[d] :
         IF k \in DOMAIN glob'[d]
         THEN \/ glob'[d][k] = glob[d][k]
              \/ glob'[d][k].first > glob[d][k].first
         ELSE /\ mtime'[d] > mtime[d]
              /\ glob[d][k].first < mtime'[d] - Threshold]_vars

\* device 2 has run twice and so has its neighbour k; device 2 holds the
\* newer record of k, and the older one is still held by the other neighbour
C25_Witness ==
    \E k \in Nbrs(2) : \E e \in Nbrs(2) \ {k} :
        /\ mtime[2] > 0
        /\ 2 \in DOMAIN glob[e] /\ glob[e][2].first < mtime[2]
        /\ k \in DOMAIN glob[2] /\ glob[2][k] = Rec(mtime[k], mval[k])
        /\ k \in DOMAIN glob[e] /\ glob[e][k].first < mtime[k]

----------------------------------------------------------------------------
(* Properties of dist in a static network *)

\* C24: in a static network with a fixed source, whatever the order of the
\* rounds and however old the estimates a device holds, the value of dist on
\* every device and every estimate held of it is at least the device's
\* hop-count distance from the source.
C24_NoUnderestimate ==
    \A d \in Devices :
        /\ hd[d] >= true_hops[d]
        /\ \A k \in DOMAIN hview[d] : hview[d][k] >= true_hops[k]

\* a device holds an estimate that its neighbour has since replaced and,
\* having lost the message of a nearer neighbour, a value above its distance
\* that is not the unreached one
C24_Witness ==
    \E d \in hran \ source :
        /\ hd[d] > true_hops[d]
        /\ hd[d] < HOPS_MAX
        /\ \E k \in DOMAIN hview[d] : hview[d][k] # hd[k]
        /\ \E k \in Nbrs(d) : k \in hran /\ k \notin DOMAIN hview[d]

====
